---- MODULE Spec2Model ----
(***************************************************************************)
(* A model of AI.py (Rock-Paper-Scissors-AI): the predictors, the          *)
(* contextual bandit controller, the entropy detector and play_rps.        *)
(*                                                                         *)
(* Spec        play_rps exactly as written, from its first line.  Line 150 *)
(*             binds strategies to the result of list.append, which is     *)
(*             None, so the first select_strategy raises TypeError.        *)
(* RoundsSpec  the round loop of play_rps (lines 161-200) started from the *)
(*             predictor collection the design describes (the three base   *)
(*             predictors and the ensemble over them).                     *)
(*                                                                         *)
(* Numbers: a reward is an integer, a UCB score is kept in 10^-6 units and *)
(* an entropy in 10^-6 bits; both fixed-point forms order the values the   *)
(* way the floating-point code does for every total pull count up to 30.   *)
(***************************************************************************)
EXTENDS Integers, Sequences, FiniteSets, TLC

VARIABLES
    pc,                     \* position of play_rps (or how it ended)
    stdin,                  \* the lines input() has still to read
    lists,                  \* the list objects: reference -> contents
    fuzzy_strategies,       \* FuzzyVotingStrategy.strategies (a reference)
    strategies,             \* play_rps local: a reference, or None
    bandit,                 \* the active BanditController
    counts,                 \* FrequencyCounter.counts
    transitions,            \* FirstOrderMarkov.transitions
    last,                   \* FirstOrderMarkov.last
    history,
    raw_opponent_moves,
    entropy_stable_rounds,
    entropy_counter,
    plays,
    ai_wins,
    player_wins,
    strat_idx,
    opponent_pred,
    my_move,
    opponent_move,
    recent_entropy,
    reward,
    message,
    ratio,
    bluffs,                 \* how often counter_move has bluffed so far
    sel_gen,                \* which controller object ran select_strategy
    steps,                  \* the calls made so far in the current round
    evals                   \* the rounds in which entropy was evaluated

vars == <<pc, stdin, lists, fuzzy_strategies, strategies, bandit, counts,
          transitions, last, history, raw_opponent_moves,
          entropy_stable_rounds, entropy_counter, plays, ai_wins,
          player_wins, strat_idx, opponent_pred, my_move, opponent_move,
          recent_entropy, reward, message, ratio, bluffs, sel_gen, steps,
          evals>>

None == "None"
Unbound == "unbound"        \* a local of play_rps not assigned yet

\* ------------------------------------------------------------- bounds
MaxRounds == 13     \* lines in a patterned input stream
MaxPeriod == 3      \* longest repeated pattern of such a stream
MaxShort == 2       \* lines in an arbitrary input stream
MaxBluffs == 1      \* bluffs of counter_move in one session

\* ---------------------------------------------------------- constants
entropy_window == 10
EntropyThresholdE6 == 1500000
StableRoundsToShift == 3

\* -------------------------------------------------------------- moves
\* The order of the keys of every {"R": .., "P": .., "S": ..} dict.
Moves == <<"R", "P", "S">>
MoveSet == {"R", "P", "S"}

\* The last key, in insertion order, of maximal value.
MaxKeyLast(d) ==
    LET best == CHOOSE i \in 1..Len(Moves) :
                    /\ \A j \in 1..Len(Moves) : d[Moves[j]] <= d[Moves[i]]
                    /\ \A j \in (i + 1)..Len(Moves) : d[Moves[j]] < d[Moves[i]]
    IN Moves[best]

\* max(d, key=d.get): the first key, in insertion order, of maximal value.
MaxKey(d) ==
    LET best == CHOOSE i \in 1..Len(Moves) :
                    /\ \A j \in 1..Len(Moves) : d[Moves[j]] <= d[Moves[i]]
                    /\ \A j \in 1..(i - 1) : d[Moves[j]] < d[Moves[i]]
    IN Moves[best]

\* ---------------------------------------------------------- predictors
\* The predictor objects, by name.
FREQ == "FrequencyCounter"
MARKOV == "FirstOrderMarkov"
MIRROR == "MirrorStrategy"
FUZZY == "FuzzyVotingStrategy"

FrequencyCounterInit == [m \in MoveSet |-> 0]
FirstOrderMarkovInit == [a \in MoveSet |-> [b \in MoveSet |-> 1]]

\* predict returns one move; where the code draws at random the set holds
\* every move it can draw.
FrequencyCounterPredict == {MaxKey(counts)}

FirstOrderMarkovPredict ==
    IF last = None THEN MoveSet ELSE {MaxKey(transitions[last])}

MirrorStrategyPredict ==
    IF history = <<>> THEN MoveSet ELSE {history[Len(history)][2]}

RECURSIVE PredictSet(_)
RECURSIVE VoteSet(_)
\* The vote dicts FuzzyVotingStrategy.predict can hold after the members
\* of the list have voted in order.
VoteSet(members) ==
    IF members = <<>>
    THEN {[m \in MoveSet |-> 0]}
    ELSE LET n == Len(members) IN
         {[vp[1] EXCEPT ![vp[2]] = @ + 1] :
              vp \in VoteSet(SubSeq(members, 1, n - 1)) \X PredictSet(members[n])}

PredictSet(s) ==
    CASE s = FREQ -> FrequencyCounterPredict
      [] s = MARKOV -> FirstOrderMarkovPredict
      [] s = MIRROR -> MirrorStrategyPredict
      [] s = FUZZY -> {MaxKey(v) : v \in VoteSet(lists[fuzzy_strategies])}

\* The predictors' statistics as one value, threaded through the updates
\* of a round; exc names the exception an update raised.
PState == [counts |-> counts, transitions |-> transitions, last |-> last,
           exc |-> None]

FrequencyCounterUpdate(ps, opp) ==
    IF ps.exc # None THEN ps
    ELSE IF opp \notin DOMAIN ps.counts THEN [ps EXCEPT !.exc = "KeyError"]
    ELSE [ps EXCEPT !.counts[opp] = @ + 1]

\* update counting the transition the wrong way round.
FirstOrderMarkovUpdateSwapped(ps, opp) ==
    IF ps.exc # None THEN ps
    ELSE IF ps.last # None
    THEN [ps EXCEPT !.transitions[opp][ps.last] = @ + 1, !.last = opp]
    ELSE [ps EXCEPT !.last = opp]

FirstOrderMarkovUpdate(ps, opp) ==
    IF ps.exc # None THEN ps
    ELSE IF ps.last # None
            /\ (\/ ps.last \notin DOMAIN ps.transitions
                \/ opp \notin DOMAIN ps.transitions[ps.last])
    THEN [ps EXCEPT !.exc = "KeyError"]
    ELSE IF ps.last # None
    THEN [ps EXCEPT !.transitions[ps.last][opp] = @ + 1, !.last = opp]
    ELSE [ps EXCEPT !.last = opp]

RECURSIVE UpdateOne(_, _, _)
RECURSIVE UpdateEach(_, _, _)
\* for s in <list>: s.update(my_move, opponent_move)
UpdateEach(members, ps, opp) ==
    IF members = <<>> THEN ps
    ELSE UpdateEach(Tail(members), UpdateOne(Head(members), ps, opp), opp)

UpdateOne(s, ps, opp) ==
    CASE s = FREQ -> FrequencyCounterUpdate(ps, opp)
      [] s = MARKOV -> FirstOrderMarkovUpdate(ps, opp)
      [] s = MIRROR -> ps
      [] s = FUZZY -> UpdateEach(lists[fuzzy_strategies], ps, opp)

\* ------------------------------------------------- fixed-point numbers
\* round(ln(t) * 10^8) for t = 1, 2, ...
LnE8 == <<0, 69314718, 109861229, 138629436, 160943791, 179175947, 194591015, 207944154, 219722458, 230258509, 239789527, 248490665, 256494936, 263905733, 270805020, 277258872, 283321334, 289037176, 294443898, 299573227, 304452244, 309104245, 313549422, 317805383, 321887582, 325809654, 329583687, 333220451, 336729583, 340119738, 343398720, 346573590>>

\* round(log2(t) * 10^6) for t = 1, 2, ...
Log2E6 == <<0, 1000000, 1584963, 2000000, 2321928, 2584963, 2807355, 3000000, 3169925, 3321928, 3459432, 3584963, 3700440, 3807355, 3906891, 4000000>>

RECURSIVE IsqrtIter(_, _, _)
IsqrtIter(v, lo, hi) ==
    IF lo = hi THEN lo
    ELSE LET mid == (lo + hi + 1) \div 2 IN
         IF mid * mid <= v THEN IsqrtIter(v, mid, hi)
         ELSE IsqrtIter(v, lo, mid - 1)

\* floor(sqrt(v)) for 0 <= v < 4 * 10^8
Isqrt(v) == IsqrtIter(v, 0, 20000)

\* sqrt(a / 10^8) in 10^-6 units: the integer root of a and one Newton
\* correction from its remainder.
SqrtE6(a) ==
    LET y == Isqrt(a) IN
    IF y = 0 THEN 0 ELSE 100 * y + (50 * (a - y * y)) \div y

\* ------------------------------------------- Contextual Bandit Controller
\* __init__ handing the old context memory on to a controller made later.
BanditControllerInitKeepsMemory(strats, gen) ==
    [strategies |-> strats,
     context_memory |-> IF gen = 1 THEN <<>> ELSE bandit.context_memory,
     gen |-> gen]

\* BanditController.__init__; gen tells one controller object from another.
BanditControllerInit(strats, gen) ==
    [strategies |-> strats, context_memory |-> <<>>, gen |-> gen]

\* The key (None, None, None); each None is written as a pair, the shape
\* of a round record, so that all keys compare.
NoContext == <<<<None, None>>, <<None, None>>, <<None, None>>>>

_context_key(h) ==
    IF Len(h) < 3 THEN NoContext
    ELSE SubSeq(h, Len(h) - 2, Len(h))

\* {i: [0.0, 1] for i in range(len(self.strategies))}
FreshStats(n) == [i \in 0..(n - 1) |-> <<0, 1>>]

\* The lazy creation both select_strategy and update start with.
EnsureContext(memory, context, n) ==
    IF context \in DOMAIN memory THEN memory
    ELSE (context :> FreshStats(n)) @@ memory

\* sum(c for _, c in stats.values())
RECURSIVE SumCounts(_, _)
SumCounts(stats, n) ==
    IF n = 0 THEN 0 ELSE stats[n - 1][2] + SumCounts(stats, n - 1)

\* reward / count + 2 * (log(total) / count) ** 0.5, in 10^-6 units
UcbScore(stat, total) ==
    (stat[1] * 1000000) \div stat[2] + 2 * SqrtE6(LnE8[total] \div stat[2])

\* The last index of maximal score.
LastMaxIndex(stats, n, total) ==
    CHOOSE i \in 0..(n - 1) :
        /\ \A j \in 0..(n - 1) : UcbScore(stats[j], total) <= UcbScore(stats[i], total)
        /\ \A j \in (i + 1)..(n - 1) : UcbScore(stats[j], total) < UcbScore(stats[i], total)

\* ucb_scores.index(max(ucb_scores)): the first index of maximal score
FirstMaxIndex(stats, n, total) ==
    CHOOSE i \in 0..(n - 1) :
        /\ \A j \in 0..(n - 1) : UcbScore(stats[j], total) <= UcbScore(stats[i], total)
        /\ \A j \in 0..(i - 1) : UcbScore(stats[j], total) < UcbScore(stats[i], total)

\* BanditController.select_strategy: the exception raised (or None), the
\* context memory afterwards and the index returned.
select_strategy(b, h) ==
    IF b.strategies = None
    THEN [exc |-> "TypeError", memory |-> b.context_memory, idx |-> None]
    ELSE LET n == Len(lists[b.strategies])
             context == _context_key(h)
             memory == EnsureContext(b.context_memory, context, n)
             total == SumCounts(memory[context], n)
         IN IF n = 0
            THEN [exc |-> "ValueError", memory |-> memory, idx |-> None]
            ELSE [exc |-> None, memory |-> memory,
                  idx |-> FirstMaxIndex(memory[context], n, total)]

\* update crediting the sentinel context whatever the history holds.
BanditUpdateSentinelOnly(b, h, index, r) ==
    LET n == Len(lists[b.strategies])
        memory == EnsureContext(b.context_memory, NoContext, n)
    IN [exc |-> None,
        memory |-> [memory EXCEPT ![NoContext][index] = <<@[1] + r, @[2] + 1>>]]

\* update adding the reward twice.
BanditUpdateDoublesReward(b, h, index, r) ==
    LET n == Len(lists[b.strategies])
        context == _context_key(h)
        memory == EnsureContext(b.context_memory, context, n)
    IN [exc |-> None,
        memory |-> [memory EXCEPT ![context][index] = <<@[1] + 2 * r, @[2] + 1>>]]

\* update with the pull count going down instead of up.
BanditUpdateCountsDown(b, h, index, r) ==
    LET n == Len(lists[b.strategies])
        context == _context_key(h)
        memory == EnsureContext(b.context_memory, context, n)
    IN [exc |-> None,
        memory |-> [memory EXCEPT ![context][index] = <<@[1] + r, @[2] - 1>>]]

\* BanditController.update: the exception raised (or None) and the context
\* memory afterwards.
BanditUpdate(b, h, index, r) ==
    IF b.strategies = None
    THEN [exc |-> "TypeError", memory |-> b.context_memory]
    ELSE LET n == Len(lists[b.strategies])
             context == _context_key(h)
             memory == EnsureContext(b.context_memory, context, n)
         IN [exc |-> None,
             memory |-> [memory EXCEPT ![context][index] =
                             <<@[1] + r, @[2] + 1>>]]

\* ------------------------------------------------------------ utilities
\* The answer table answering every move with itself.
BeatsNothing == [m \in MoveSet |-> m]

\* {"R": "P", "P": "S", "S": "R"}
Beats == [m \in MoveSet |->
             CASE m = "R" -> "P" [] m = "P" -> "S" [] m = "S" -> "R"]

\* counter_move: the moves it can return, each with whether it bluffed.
counter_move(move, may_bluff) ==
    {<<Beats[move], FALSE>>}
        \cup (IF may_bluff THEN {<<m, TRUE>> : m \in MoveSet} ELSE {})

\* get_reward scoring every pair of different moves as a win.
get_reward_never_loses(mine, theirs) ==
    IF mine = theirs THEN 0 ELSE 1

get_reward(mine, theirs) ==
    IF mine = theirs THEN 0
    ELSE IF <<mine, theirs>> \in {<<"R", "S">>, <<"P", "R">>, <<"S", "P">>}
    THEN 1
    ELSE -1

\* collections.Counter(moves)[x]
CountOf(moves, x) == Cardinality({i \in 1..Len(moves) : moves[i] = x})

RECURSIVE SumOver(_, _)
SumOver(f, S) ==
    IF S = {} THEN 0
    ELSE LET x == CHOOSE y \in S : TRUE IN f[x] + SumOver(f, S \ {x})

\* entropy taking every position of the window for a value of its own.
entropy_of_positions(moves) ==
    IF Len(moves) > 0 THEN Log2E6[Len(moves)] ELSE 0

\* entropy(moves), in 10^-6 bits: -sum(ratio * log2(ratio)) over the
\* distinct values, ratio = count / total.
entropy(moves) ==
    LET total == Len(moves)
        keys == {moves[i] : i \in 1..Len(moves)}
        term == [x \in keys |->
                    CountOf(moves, x) * (Log2E6[total] - Log2E6[CountOf(moves, x)])]
    IN IF total > 0 THEN SumOver(term, keys) \div total ELSE 0

\* moves[-k:]
LastN(moves, k) ==
    IF Len(moves) <= k THEN moves
    ELSE SubSeq(moves, Len(moves) - k + 1, Len(moves))

\* ---------------------------------------------------------------- input
\* Strings are TLA+ strings; StrTable gives the characters of those that
\* are not a single character.
StrTable == {<<"", <<>>>>, <<"RP", <<"R", "P">>>>, <<"PS", <<"P", "S">>>>,
             <<"ps", <<"p", "s">>>>, <<"SR", <<"S", "R">>>>}

Chars(s) ==
    IF \E t \in StrTable : t[1] = s
    THEN (CHOOSE t \in StrTable : t[1] = s)[2]
    ELSE <<s>>

Str(cs) == IF Len(cs) = 1 THEN cs[1] ELSE (CHOOSE t \in StrTable : t[2] = cs)[1]

UpperChar(c) ==
    CASE c = "r" -> "R" [] c = "p" -> "P" [] c = "s" -> "S"
      [] c = "e" -> "E" [] c = "x" -> "X" [] OTHER -> c

\* str.upper
Upper(s) == Str([i \in 1..Len(Chars(s)) |-> UpperChar(Chars(s)[i])])

\* choice in 'RPS': the substring test of str.__contains__
InRPS(choice) ==
    LET cs == Chars(choice) IN
    \E start \in 0..(Len(Moves) - Len(cs)) :
        \A i \in 1..Len(cs) : Moves[start + i] = cs[i]

\* One pass of the loop of get_opponent_move over the line read.
ReadOutcome(line) ==
    LET choice == Upper(line) IN
    IF InRPS(choice) /\ choice # "" THEN [kind |-> "return", value |-> choice]
    ELSE IF choice = "E" THEN [kind |-> "exit", value |-> choice]
    ELSE [kind |-> "prompt", value |-> choice]

\* What a user can type on one line.
Lines == {"R", "P", "S", "s", "", "RP", "ps", "SR", "E", "X"}

ShortStreams == UNION {[1..n -> Lines] : n \in 0..MaxShort}

Patterns == UNION {[1..n -> MoveSet] : n \in 1..MaxPeriod}

Cyclic(p) == [i \in 1..MaxRounds |-> p[((i - 1) % Len(p)) + 1]]

Streams == ShortStreams \cup {Cyclic(p) : p \in Patterns}

\* ------------------------------------------------------------- play_rps
BASE == "base_strategies"   \* the list object line 148 creates

\* play_rps on entry: nothing is bound yet.
Init ==
    /\ pc = "l146"
    /\ stdin \in Streams
    /\ lists = <<>>
    /\ fuzzy_strategies = Unbound
    /\ strategies = Unbound
    /\ bandit = Unbound
    /\ counts = Unbound
    /\ transitions = Unbound
    /\ last = Unbound
    /\ history = Unbound
    /\ raw_opponent_moves = Unbound
    /\ entropy_stable_rounds = Unbound
    /\ entropy_counter = Unbound
    /\ plays = Unbound
    /\ ai_wins = Unbound
    /\ player_wins = Unbound
    /\ strat_idx = Unbound
    /\ opponent_pred = Unbound
    /\ my_move = Unbound
    /\ opponent_move = Unbound
    /\ recent_entropy = Unbound
    /\ reward = Unbound
    /\ message = Unbound
    /\ ratio = Unbound
    /\ bluffs = 0
    /\ sel_gen = 0
    /\ steps = <<>>
    /\ evals = <<>>

\* Lines 146-148: the two histories and the three base predictors.
BuildBase ==
    /\ pc = "l146"
    /\ history' = <<>>
    /\ raw_opponent_moves' = <<>>
    /\ counts' = FrequencyCounterInit
    /\ transitions' = FirstOrderMarkovInit
    /\ last' = None
    /\ lists' = (BASE :> <<FREQ, MARKOV, MIRROR>>)
    /\ pc' = "l149"
    /\ UNCHANGED <<stdin, fuzzy_strategies, strategies, bandit,
                   entropy_stable_rounds, entropy_counter, plays, ai_wins,
                   player_wins, strat_idx, opponent_pred, my_move,
                   opponent_move, recent_entropy, reward, message, ratio,
                   bluffs, sel_gen, steps, evals>>

\* Line 149: the ensemble keeps the list it is given, not a copy.
BuildFuzzy ==
    /\ pc = "l149"
    /\ fuzzy_strategies' = BASE
    /\ pc' = "l150"
    /\ UNCHANGED <<stdin, lists, strategies, bandit, counts, transitions,
                   last, history, raw_opponent_moves, entropy_stable_rounds,
                   entropy_counter, plays, ai_wins, player_wins, strat_idx,
                   opponent_pred, my_move, opponent_move, recent_entropy,
                   reward, message, ratio, bluffs, sel_gen, steps, evals>>

\* Line 150: list.append changes the list in place and returns None.
AppendFuzzy ==
    /\ pc = "l150"
    /\ lists' = [lists EXCEPT ![BASE] = Append(@, FUZZY)]
    /\ strategies' = None
    /\ pc' = "l151"
    /\ UNCHANGED <<stdin, fuzzy_strategies, bandit, counts, transitions,
                   last, history, raw_opponent_moves, entropy_stable_rounds,
                   entropy_counter, plays, ai_wins, player_wins, strat_idx,
                   opponent_pred, my_move, opponent_move, recent_entropy,
                   reward, message, ratio, bluffs, sel_gen, steps, evals>>

\* Lines 151-160: the controller and the counters.
BuildBandit ==
    /\ pc = "l151"
    /\ bandit' = BanditControllerInit(strategies, 1)
    /\ entropy_stable_rounds' = 0
    /\ plays' = 0
    /\ entropy_counter' = 0
    /\ ai_wins' = 0
    /\ player_wins' = 0
    /\ pc' = "begin"
    /\ UNCHANGED <<stdin, lists, fuzzy_strategies, strategies, counts,
                   transitions, last, history, raw_opponent_moves, strat_idx,
                   opponent_pred, my_move, opponent_move, recent_entropy,
                   reward, message, ratio, bluffs, sel_gen, steps, evals>>

\* Lines 162-165: count the round, ask the controller, fetch the predictor.
RoundBegin ==
    /\ pc = "begin"
    /\ plays' = plays + 1
    /\ entropy_counter' = entropy_counter + 1
    /\ LET sel == select_strategy(bandit, history) IN
       /\ bandit' = [bandit EXCEPT !.context_memory = sel.memory]
       /\ IF sel.exc # None
          THEN pc' = sel.exc /\ strat_idx' = strat_idx
          ELSE /\ strat_idx' = sel.idx
               /\ pc' = IF strategies = None THEN "TypeError" ELSE "predict"
    /\ sel_gen' = bandit.gen
    /\ steps' = <<"select_strategy">>
    /\ UNCHANGED <<stdin, lists, fuzzy_strategies, strategies, counts,
                   transitions, last, history, raw_opponent_moves,
                   entropy_stable_rounds, ai_wins, player_wins, opponent_pred,
                   my_move, opponent_move, recent_entropy, reward, message,
                   ratio, bluffs, evals>>

\* Lines 167-168: the chosen predictor predicts, counter_move answers.
Predict ==
    /\ pc = "predict"
    /\ \E p \in PredictSet(lists[strategies][strat_idx + 1]) :
       \E mv \in counter_move(p, bluffs < MaxBluffs) :
          /\ opponent_pred' = p
          /\ my_move' = mv[1]
          /\ bluffs' = IF mv[2] THEN bluffs + 1 ELSE bluffs
    /\ steps' = steps \o <<"predict", "counter_move">>
    /\ pc' = "input"
    /\ UNCHANGED <<stdin, lists, fuzzy_strategies, strategies, bandit, counts,
                   transitions, last, history, raw_opponent_moves,
                   entropy_stable_rounds, entropy_counter, plays, ai_wins,
                   player_wins, strat_idx, opponent_move, recent_entropy,
                   reward, message, ratio, sel_gen, evals>>

\* Lines 119-126 and 170-171: one input() of get_opponent_move.  At the end
\* of the input input() raises EOFError.
GetOpponentMove ==
    /\ pc = "input"
    /\ IF stdin = <<>>
       THEN /\ pc' = "EOFError"
            /\ UNCHANGED <<stdin, opponent_move, raw_opponent_moves, steps>>
       ELSE LET out == ReadOutcome(Head(stdin)) IN
            /\ stdin' = Tail(stdin)
            /\ CASE out.kind = "return" ->
                      /\ opponent_move' = out.value
                      /\ raw_opponent_moves' = Append(raw_opponent_moves, out.value)
                      /\ steps' = Append(steps, "get_opponent_move")
                      /\ pc' = "detect"
                 [] out.kind = "exit" ->
                      /\ pc' = "exit"
                      /\ UNCHANGED <<opponent_move, raw_opponent_moves, steps>>
                 [] out.kind = "prompt" ->
                      /\ pc' = "input"
                      /\ UNCHANGED <<opponent_move, raw_opponent_moves, steps>>
    /\ UNCHANGED <<lists, fuzzy_strategies, strategies, bandit, counts,
                   transitions, last, history, entropy_stable_rounds,
                   entropy_counter, plays, ai_wins, player_wins, strat_idx,
                   opponent_pred, my_move, recent_entropy, reward, message,
                   ratio, bluffs, sel_gen, evals>>

\* Lines 176-184 with the shift reset left out: a shift keeps the counter.
DetectorOutcomeKeepsCount(e, stable, counter) ==
    LET s == IF e > EntropyThresholdE6 THEN stable + 1 ELSE 0 IN
    [shift |-> s >= StableRoundsToShift, stable |-> s,
     counter |-> IF s >= StableRoundsToShift
                 THEN counter % entropy_window ELSE counter]

\* Lines 176-184: what an evaluation with entropy e does to the two
\* counters, and whether it signals a shift.
DetectorOutcome(e, stable, counter) ==
    LET s == IF e > EntropyThresholdE6 THEN stable + 1 ELSE 0 IN
    IF s >= StableRoundsToShift
    THEN [shift |-> TRUE, stable |-> 0, counter |-> counter % entropy_window]
    ELSE [shift |-> FALSE, stable |-> s, counter |-> counter]

\* Lines 174-184: the detector.
Detect ==
    /\ pc = "detect"
    /\ IF entropy_counter >= entropy_window
       THEN LET e == entropy(LastN(raw_opponent_moves, entropy_window))
                out == DetectorOutcome(e, entropy_stable_rounds, entropy_counter)
            IN /\ recent_entropy' = e
               /\ evals' = Append(evals, plays)
               /\ entropy_stable_rounds' = out.stable
               /\ entropy_counter' = out.counter
               /\ bandit' = IF out.shift
                            THEN BanditControllerInit(strategies, bandit.gen + 1)
                            ELSE bandit
       ELSE UNCHANGED <<recent_entropy, evals, entropy_counter, bandit,
                        entropy_stable_rounds>>
    /\ steps' = Append(steps, "detector")
    /\ pc' = "reward"
    /\ UNCHANGED <<stdin, lists, fuzzy_strategies, strategies, counts,
                   transitions, last, history, raw_opponent_moves, plays,
                   ai_wins, player_wins, strat_idx, opponent_pred, my_move,
                   opponent_move, reward, message, ratio, bluffs, sel_gen>>

\* Lines 186-187: the reward, credited to the controller now active.
Reward ==
    /\ pc = "reward"
    /\ reward' = get_reward(my_move, opponent_move)
    /\ LET upd == BanditUpdate(bandit, history, strat_idx, reward') IN
       /\ bandit' = [bandit EXCEPT !.context_memory = upd.memory]
       /\ pc' = IF upd.exc # None THEN upd.exc ELSE "update"
    /\ steps' = steps \o <<"get_reward", "bandit.update">>
    /\ UNCHANGED <<stdin, lists, fuzzy_strategies, strategies, counts,
                   transitions, last, history, raw_opponent_moves,
                   entropy_stable_rounds, entropy_counter, plays, ai_wins,
                   player_wins, strat_idx, opponent_pred, my_move,
                   opponent_move, recent_entropy, message, ratio, bluffs,
                   sel_gen, evals>>

\* Lines 189-190: every predictor of the collection is updated in turn.
UpdateStrategies ==
    /\ pc = "update"
    /\ LET ps == UpdateEach(lists[strategies], PState, opponent_move) IN
       /\ counts' = ps.counts
       /\ transitions' = ps.transitions
       /\ last' = ps.last
       /\ pc' = IF ps.exc # None THEN ps.exc ELSE "report"
    /\ steps' = Append(steps, "strategy.update")
    /\ UNCHANGED <<stdin, lists, fuzzy_strategies, strategies, bandit,
                   history, raw_opponent_moves, entropy_stable_rounds,
                   entropy_counter, plays, ai_wins, player_wins, strat_idx,
                   opponent_pred, my_move, opponent_move, recent_entropy,
                   reward, message, ratio, bluffs, sel_gen, evals>>

\* Lines 192-200 keeping only the records the context key reads.
ReportKeepsWindow ==
    /\ pc = "report"
    /\ history' = LastN(Append(history, <<my_move, opponent_move>>), 3)
    /\ LET player_won == (reward = 0) IN
       /\ player_wins' = IF player_won THEN player_wins + 1 ELSE player_wins
       /\ ai_wins' = IF player_won THEN ai_wins ELSE ai_wins + 1
       /\ message' = IF player_won THEN "You win!" ELSE "AI wins!"
    /\ ratio' = <<ai_wins', plays>>
    /\ steps' = Append(steps, "report")
    /\ pc' = "begin"
    /\ UNCHANGED <<stdin, lists, fuzzy_strategies, strategies, bandit, counts,
                   transitions, last, raw_opponent_moves,
                   entropy_stable_rounds, entropy_counter, plays, strat_idx,
                   opponent_pred, my_move, opponent_move, recent_entropy,
                   reward, bluffs, sel_gen, evals>>

\* Lines 192-200: the record of the round and the line printed.
Report ==
    /\ pc = "report"
    /\ history' = Append(history, <<my_move, opponent_move>>)
    /\ LET player_won == (reward = 0) IN
       /\ player_wins' = IF player_won THEN player_wins + 1 ELSE player_wins
       /\ ai_wins' = IF player_won THEN ai_wins ELSE ai_wins + 1
       /\ message' = IF player_won THEN "You win!" ELSE "AI wins!"
    /\ ratio' = <<ai_wins', plays>>      \* ai_wins / plays, as a fraction
    /\ steps' = Append(steps, "report")
    /\ pc' = "begin"
    /\ UNCHANGED <<stdin, lists, fuzzy_strategies, strategies, bandit, counts,
                   transitions, last, raw_opponent_moves,
                   entropy_stable_rounds, entropy_counter, plays, strat_idx,
                   opponent_pred, my_move, opponent_move, recent_entropy,
                   reward, bluffs, sel_gen, evals>>

Next == BuildBase \/ BuildFuzzy \/ AppendFuzzy \/ BuildBandit \/ RoundBegin

Spec == Init /\ [][Next]_vars

\* ------------------------------------------------------- the round loop
MEMBERS == "members"
ALL == "strategies"

\* The predictor collection of the design: the three base predictors, and
\* the ensemble holding a list of its own of those three.
DesignedLists ==
    (MEMBERS :> <<FREQ, MARKOV, MIRROR>>)
        @@ (ALL :> <<FREQ, MARKOV, MIRROR, FUZZY>>)

\* Line 161 reached with that collection.
InitRounds ==
    /\ pc = "begin"
    /\ stdin \in Streams
    /\ lists = DesignedLists
    /\ fuzzy_strategies = MEMBERS
    /\ strategies = ALL
    /\ bandit = BanditControllerInit(ALL, 1)
    /\ counts = FrequencyCounterInit
    /\ transitions = FirstOrderMarkovInit
    /\ last = None
    /\ history = <<>>
    /\ raw_opponent_moves = <<>>
    /\ entropy_stable_rounds = 0
    /\ entropy_counter = 0
    /\ plays = 0
    /\ ai_wins = 0
    /\ player_wins = 0
    /\ strat_idx = Unbound
    /\ opponent_pred = Unbound
    /\ my_move = Unbound
    /\ opponent_move = Unbound
    /\ recent_entropy = Unbound
    /\ reward = Unbound
    /\ message = Unbound
    /\ ratio = Unbound
    /\ bluffs = 0
    /\ sel_gen = 0
    /\ steps = <<>>
    /\ evals = <<>>

NextRounds ==
    \/ RoundBegin
    \/ Predict
    \/ GetOpponentMove
    \/ Detect
    \/ Reward
    \/ UpdateStrategies
    \/ Report

RoundsSpec == InitRounds /\ [][NextRounds]_vars

\* ------------------------------------------------- the classes on their own
\* Calls made on one freshly constructed object, or on the two utility
\* functions, with arguments the session can pass them.
MaxCalls == 4       \* calls made on a predictor or on the utilities
MaxControllerCalls == 3     \* calls made on a controller

\* Round histories passed to the controller: one short of three records,
\* and two that differ in their last three.
CallHistories ==
    {<<>>,
     <<<<"P", "R">>, <<"S", "R">>, <<"R", "P">>>>,
     <<<<"P", "R">>, <<"S", "R">>, <<"R", "P">>, <<"S", "S">>>>}

\* The lists a controller is constructed over.
CallLists ==
    {DesignedLists, (MEMBERS :> <<FREQ, MARKOV, MIRROR>>) @@ (ALL :> <<FREQ, MIRROR>>)}

\* The locals of play_rps no method of the classes touches.
session == <<stdin, fuzzy_strategies, strategies, raw_opponent_moves,
             entropy_stable_rounds, entropy_counter, plays, ai_wins,
             player_wins, recent_entropy, message, ratio, sel_gen, evals>>

InitCalls ==
    /\ pc \in {"FrequencyCounter", "FirstOrderMarkov", "BanditController",
               "utilities"}
    /\ stdin = <<>>
    /\ lists \in CallLists
    /\ pc # "BanditController" => lists = DesignedLists
    /\ fuzzy_strategies = MEMBERS
    /\ strategies = ALL
    /\ bandit = BanditControllerInit(ALL, 1)
    /\ counts = FrequencyCounterInit
    /\ transitions = FirstOrderMarkovInit
    /\ last = None
    /\ history = <<>>
    /\ raw_opponent_moves = <<>>
    /\ entropy_stable_rounds = 0
    /\ entropy_counter = 0
    /\ plays = 0
    /\ ai_wins = 0
    /\ player_wins = 0
    /\ strat_idx = Unbound
    /\ opponent_pred = Unbound
    /\ my_move = Unbound
    /\ opponent_move = Unbound
    /\ recent_entropy = Unbound
    /\ reward = Unbound
    /\ message = Unbound
    /\ ratio = Unbound
    /\ bluffs = 0
    /\ sel_gen = 0
    /\ steps = <<>>
    /\ evals = <<>>

\* FrequencyCounter.update(my_move, opponent_move)
FrequencyCounter_update ==
    /\ pc = "FrequencyCounter"
    /\ Len(steps) < MaxCalls
    /\ \E opp \in MoveSet :
          /\ opponent_move' = opp
          /\ counts' = FrequencyCounterUpdate(PState, opp).counts
    /\ steps' = Append(steps, "update")
    /\ UNCHANGED <<pc, lists, bandit, transitions, last, history, strat_idx,
                   opponent_pred, my_move, reward, bluffs, session>>

\* FrequencyCounter.predict(history)
FrequencyCounter_predict ==
    /\ pc = "FrequencyCounter"
    /\ Len(steps) < MaxCalls
    /\ opponent_pred' \in FrequencyCounterPredict
    /\ steps' = Append(steps, "predict")
    /\ UNCHANGED <<pc, lists, bandit, counts, transitions, last, history,
                   strat_idx, my_move, opponent_move, reward, bluffs, session>>

\* FirstOrderMarkov.update(my_move, opponent_move)
FirstOrderMarkov_update ==
    /\ pc = "FirstOrderMarkov"
    /\ Len(steps) < MaxCalls
    /\ \E opp \in MoveSet :
          LET ps == FirstOrderMarkovUpdate(PState, opp) IN
          /\ opponent_move' = opp
          /\ transitions' = ps.transitions
          /\ last' = ps.last
    /\ steps' = Append(steps, "update")
    /\ UNCHANGED <<pc, lists, bandit, counts, history, strat_idx,
                   opponent_pred, my_move, reward, bluffs, session>>

\* FirstOrderMarkov.predict(history)
FirstOrderMarkov_predict ==
    /\ pc = "FirstOrderMarkov"
    /\ Len(steps) < MaxCalls
    /\ opponent_pred' \in FirstOrderMarkovPredict
    /\ steps' = Append(steps, "predict")
    /\ UNCHANGED <<pc, lists, bandit, counts, transitions, last, history,
                   strat_idx, my_move, opponent_move, reward, bluffs, session>>

\* get_reward(my_move, opponent_move)
Call_get_reward ==
    /\ pc = "utilities"
    /\ Len(steps) < MaxCalls
    /\ \E mine \in MoveSet, theirs \in MoveSet :
          /\ my_move' = mine
          /\ opponent_move' = theirs
          /\ reward' = get_reward(mine, theirs)
    /\ steps' = Append(steps, "get_reward")
    /\ UNCHANGED <<pc, lists, bandit, counts, transitions, last, history,
                   strat_idx, opponent_pred, bluffs, session>>

\* counter_move(opponent_pred)
Call_counter_move ==
    /\ pc = "utilities"
    /\ Len(steps) < MaxCalls
    /\ \E p \in MoveSet :
       \E mv \in counter_move(p, bluffs < MaxBluffs) :
          /\ opponent_pred' = p
          /\ my_move' = mv[1]
          /\ bluffs' = IF mv[2] THEN bluffs + 1 ELSE bluffs
    /\ steps' = Append(steps, "counter_move")
    /\ UNCHANGED <<pc, lists, bandit, counts, transitions, last, history,
                   strat_idx, opponent_move, reward, session>>

\* BanditController.select_strategy(history)
BanditController_select_strategy ==
    /\ pc = "BanditController"
    /\ Len(steps) < MaxControllerCalls
    /\ \E h \in CallHistories :
          LET sel == select_strategy(bandit, h) IN
          /\ history' = h
          /\ bandit' = [bandit EXCEPT !.context_memory = sel.memory]
          /\ strat_idx' = sel.idx
    /\ steps' = Append(steps, "select_strategy")
    /\ UNCHANGED <<pc, lists, counts, transitions, last, opponent_pred,
                   my_move, opponent_move, reward, bluffs, session>>

\* BanditController.update(history, index, reward)
BanditController_update ==
    /\ pc = "BanditController"
    /\ Len(steps) < MaxControllerCalls
    /\ \E h \in CallHistories, index \in 0..(Len(lists[bandit.strategies]) - 1),
          r \in {get_reward(a, b) : a \in MoveSet, b \in MoveSet} :
          /\ history' = h
          /\ strat_idx' = index
          /\ reward' = r
          /\ bandit' = [bandit EXCEPT !.context_memory =
                            BanditUpdate(bandit, h, index, r).memory]
    /\ steps' = Append(steps, "update")
    /\ UNCHANGED <<pc, lists, counts, transitions, last, opponent_pred,
                   my_move, opponent_move, bluffs, session>>

NextCalls ==
    \/ FrequencyCounter_update
    \/ FrequencyCounter_predict
    \/ FirstOrderMarkov_update
    \/ FirstOrderMarkov_predict
    \/ Call_get_reward
    \/ Call_counter_move
    \/ BanditController_select_strategy
    \/ BanditController_update

CallsSpec == InitCalls /\ [][NextCalls]_vars

\* =============================================================== claims
\* The order of calls C1 gives for a round.
ClaimedOrder ==
    <<"select_strategy", "predict", "counter_move", "get_opponent_move",
      "get_reward", "bandit.update", "strategy.update", "detector">>

C1_CreditedToSelector == pc = "update" => bandit.gen = sel_gen

C6_MembersFixed ==
    fuzzy_strategies # Unbound =>
        lists[fuzzy_strategies] = <<FREQ, MARKOV, MIRROR>>

\* The increments the transition table has received.
MarkovIncrements ==
    SumOver([a \in MoveSet |-> SumOver(transitions[a], MoveSet)], MoveSet)
        - Cardinality(MoveSet) * Cardinality(MoveSet)

C8_SelectNeverFails ==
    /\ pc \notin {"TypeError", "ValueError"}
    /\ pc \in {"begin", "predict"} =>
          /\ bandit.strategies # None
          /\ Len(lists[bandit.strategies]) >= 2
    /\ pc = "predict" => strat_idx \in 0..(Len(lists[bandit.strategies]) - 1)

RoundsWon ==
    Cardinality({i \in 1..Len(history) :
                     get_reward(history[i][1], history[i][2]) = 1})

RuleBeats(a, b) ==
    \/ a = "R" /\ b = "S"
    \/ a = "P" /\ b = "R"
    \/ a = "S" /\ b = "P"

\* The name of the last call made, None before the first.
LastCall == IF steps = <<>> THEN None ELSE steps[Len(steps)]

\* C12: get_reward(a, b) is 0 for equal moves, +1 when a beats b and -1
\* when a loses to b; it is antisymmetric on different moves, and each
\* move beats exactly one other move and loses to exactly one other.
C12_GetReward ==
    /\ (pc = "utilities" /\ LastCall = "get_reward") =>
          reward = IF my_move = opponent_move THEN 0
                   ELSE IF RuleBeats(my_move, opponent_move) THEN 1
                   ELSE -1
    /\ \A a \in MoveSet, b \in MoveSet :
          a # b => get_reward(a, b) = -get_reward(b, a)
    /\ \A a \in MoveSet :
          /\ Cardinality({b \in MoveSet \ {a} : get_reward(a, b) = 1}) = 1
          /\ Cardinality({b \in MoveSet \ {a} : get_reward(a, b) = -1}) = 1

C12_Witness ==
    /\ pc = "utilities"
    /\ LastCall = "get_reward"
    /\ Len(steps) = MaxCalls
    /\ my_move = "S"
    /\ opponent_move = "R"
    /\ reward = -1


\* The ways a session is over: an exception left play_rps, or exit() ran.
SessionOver == pc \in {"TypeError", "ValueError", "KeyError", "EOFError", "exit"}

\* C13: the session ends only when 'E' is entered at a move prompt, and
\* then at once: the round it was entered in computes no reward and leaves
\* history, predictor statistics and bandit statistics as they were.
C13_EndsOnlyOnE ==
    SessionOver =>
        /\ pc = "exit"
        /\ Len(history) = plays - 1
        /\ Len(raw_opponent_moves) = plays - 1


\* The statistics a controller holds for a (context, index) pair; a
\* context it has not created yet stands for fresh statistics.
StatsOf(memory, context, index) ==
    IF context \in DOMAIN memory THEN memory[context][index] ELSE <<0, 1>>

PlaceOf(m) == CASE m = "R" -> 1 [] m = "P" -> 2 [] m = "S" -> 3

\* C16: FrequencyCounter.predict returns a move whose count no move
\* exceeds, the earliest such move in the order R, P, S (R when nothing
\* has been counted), and it leaves the counts as they were.
C16_FrequencyPredict ==
    /\ []((pc = "FrequencyCounter" /\ LastCall = "predict") =>
            /\ opponent_pred \in MoveSet
            /\ \A m \in MoveSet : counts[m] <= counts[opponent_pred]
            /\ \A m \in MoveSet :
                  PlaceOf(m) < PlaceOf(opponent_pred) =>
                      counts[m] < counts[opponent_pred]
            /\ (\A m \in MoveSet : counts[m] = 0) => opponent_pred = "R")
    /\ [][(pc = "FrequencyCounter" /\ steps' = Append(steps, "predict")) =>
            counts' = counts]_vars

C16_Witness ==
    /\ pc = "FrequencyCounter"
    /\ LastCall = "predict"
    /\ counts = [m \in MoveSet |-> IF m = "R" THEN 0 ELSE 1]
    /\ opponent_pred = "P"


\* C17: every cell of the transition table is at least 1 and never
\* decreases; the first update increments no cell and records the observed
\* move as previous; each later update adds 1 to the cell
\* transitions[previous][observed], to no other, and then records the
\* observed move as previous.
C17_MarkovUpdate ==
    /\ [](\A a \in MoveSet, b \in MoveSet : transitions[a][b] >= 1)
    /\ [](pc = "FirstOrderMarkov" =>
            (last = None <=> \A i \in 1..Len(steps) : steps[i] # "update"))
    /\ [][\A a \in MoveSet, b \in MoveSet :
            transitions'[a][b] >= transitions[a][b]]_vars
    /\ [][(pc = "FirstOrderMarkov" /\ steps' = Append(steps, "update")) =>
            /\ last' = opponent_move'
            /\ \A a \in MoveSet, b \in MoveSet :
                  transitions'[a][b] =
                     IF last # None /\ a = last /\ b = opponent_move'
                     THEN transitions[a][b] + 1
                     ELSE transitions[a][b]]_vars

C17_Witness ==
    /\ pc = "FirstOrderMarkov"
    /\ LastCall = "update"
    /\ last = "S"
    /\ transitions["R"]["P"] = 2
    /\ transitions["P"]["S"] = 2
    /\ transitions["S"]["R"] = 1


\* C18: counter_move(X) returns a move of R, P, S; when it does not bluff
\* the move is the only one that beats X (R -> P, P -> S, S -> R), the one
\* get_reward scores +1 against X.
C18_CounterMove ==
    [][(pc = "utilities" /\ steps' = Append(steps, "counter_move")) =>
          /\ my_move' \in MoveSet
          /\ bluffs' = bluffs =>
                /\ <<opponent_pred', my_move'>> \in
                       {<<"R", "P">>, <<"P", "S">>, <<"S", "R">>}
                /\ get_reward(my_move', opponent_pred') = 1
                /\ \A m \in MoveSet :
                      get_reward(m, opponent_pred') = 1 => m = my_move']_vars

C18_Witness ==
    /\ pc = "utilities"
    /\ LastCall = "counter_move"
    /\ bluffs = 0
    /\ opponent_pred = "S"
    /\ my_move = "R"


\* The (context, index) pairs a context memory holds.
PairsOf(memory) ==
    UNION {{<<c, i>> : i \in DOMAIN memory[c]} : c \in DOMAIN memory}

\* The pulls recorded over all pairs, the initial 1 of each left out.
PullsOf(memory) ==
    SumOver([p \in PairsOf(memory) |-> memory[p[1]][p[2]][2] - 1],
            PairsOf(memory))

\* C19: for every (context, index) pair of the controller the cumulative
\* reward lies between -(pullCount - 1) and pullCount - 1, and the sum of
\* pullCount - 1 over all pairs is the number of update calls made on the
\* controller since it was created.
C19_RewardWithinPulls ==
    pc = "BanditController" =>
        /\ \A p \in PairsOf(bandit.context_memory) :
              LET stat == bandit.context_memory[p[1]][p[2]] IN
              /\ stat[1] <= stat[2] - 1
              /\ -stat[1] <= stat[2] - 1
        /\ PullsOf(bandit.context_memory) =
              Cardinality({i \in 1..Len(steps) : steps[i] = "update"})

C19_Witness ==
    /\ pc = "BanditController"
    /\ Len(steps) = MaxControllerCalls
    /\ \A i \in 1..Len(steps) : steps[i] = "update"
    /\ Cardinality(DOMAIN bandit.context_memory) = 2
    /\ \E p \in PairsOf(bandit.context_memory) :
          bandit.context_memory[p[1]][p[2]] = <<-2, 3>>


\* The opponent has played one and the same move in every round so far.
SameMoveEveryRound ==
    \A i \in 1..Len(raw_opponent_moves), j \in 1..Len(raw_opponent_moves) :
        raw_opponent_moves[i] = raw_opponent_moves[j]

\* Some entropy_window consecutive opponent moves hold R, P and S.
WindowWithAllThree ==
    \E k \in 1..(Len(raw_opponent_moves) - entropy_window + 1) :
        MoveSet \subseteq
            {raw_opponent_moves[i] : i \in k..(k + entropy_window - 1)}

====
